---- MODULE Spec2Model ----
(***************************************************************************)
(* Frame-buffer text console of rust-x86-os (src/src/terminal.rs) and its  *)
(* use from the kernel (src/src/main.rs): the global WRITER cell, the      *)
(* spin-locked LockedWriter and the Writer that blits glyphs into the      *)
(* pixel buffer.                                                           *)
(***************************************************************************)
EXTENDS Integers, Sequences, FiniteSets, TLC

(***************************************************************************)
(* Bounds of the model.                                                    *)
(***************************************************************************)
\* number of execution contexts (cores, interrupt contexts) calling the API
NumProcs == 2
\* longest text of one printf! request, in characters
MaxLen == 2
\* a request is only started while the cursor is on one of the lines 0..MaxLine
MaxLine == 1

(***************************************************************************)
(* Program constants.                                                      *)
(***************************************************************************)
\* terminal.rs:17
LINE_SPACING == 0
\* terminal.rs:19
LOG_SPACING == 2
\* terminal.rs:61, the literal line height of newline()
LINE_HEIGHT == 14
\* terminal.rs:101, BitmapHeight::Size14: rows of every glyph bitmap
BITMAP_HEIGHT == 14
\* terminal.rs:96-97, get_bitmap_width(FontWeight::Regular, BitmapHeight::Size14)
BITMAP_LETTER_WIDTH == 8
\* terminal.rs:43-44: x_pos and y_pos are usize.  TLC's integers have 32 bits,
\* so the machine word is modelled with 30 bits; every quantity of the model
\* stays far below it, as it stays far below 2^64 on the machine.
UsizeModulus == 2^30

Procs == 1..NumProcs

\* the characters written: line feed, carriage return, two characters the font
\* has a glyph for, and one code point it has none for
LF == "\n"
CR == "\r"
NoGlyphChar == "U+4E2D"
Chars == {LF, CR, "A", "B", NoGlyphChar}

RECURSIVE SeqsUpTo(_)
SeqsUpTo(n) ==
  IF n = 0 THEN {<< >>}
  ELSE LET S == SeqsUpTo(n - 1)
       IN S \cup {Append(s, c) : s \in {t \in S : Len(t) = n - 1}, c \in Chars}

\* the texts a request can carry
Requests == SeqsUpTo(MaxLen) \ {<< >>}

(***************************************************************************)
(* FrameBufferInfo values the boot loader can hand over, with the byte     *)
(* length of the buffer that comes with each (stride is in pixels, the     *)
(* buffer holds stride * vertical_resolution pixels).                      *)
(***************************************************************************)
Layout(w, h, s, b, f) ==
  [horizontal_resolution |-> w, vertical_resolution |-> h, stride |-> s,
   bytes_per_pixel |-> b, pixel_format |-> f, byte_len |-> s * h * b]

\* one line of one character cell
LayoutOneCell  == Layout(8, 22, 8, 3, "BGR")
\* one line of two character cells
LayoutTwoCells == Layout(16, 22, 16, 1, "U8")
\* two lines fit above the bottom margin, the third starts 9 rows above the end
LayoutTall     == Layout(8, 37, 8, 1, "U8")
\* the row is one pixel wider than a cell, and padded
LayoutPadded   == Layout(9, 22, 10, 4, "RGB")
\* lower than a glyph is wide
LayoutTiny     == Layout(4, 2, 8, 4, "RGB")
\* a pixel format the writer does not know
LayoutOther    == Layout(8, 22, 8, 1, "Other")

Layouts == {LayoutOneCell, LayoutTwoCells, LayoutTall, LayoutPadded, LayoutTiny,
            LayoutOther}

NoInfo == Layout(0, 0, 0, 0, "None")

VARIABLES
  WRITER,           \* the OnceCell: "Uninit" or "Init"
  info,             \* Writer.info
  framebuffer,      \* Writer.framebuffer, byte i of the slice is framebuffer[i+1]
  x_pos,            \* Writer.x_pos
  y_pos,            \* Writer.y_pos
  locked,           \* the Spinlock's flag
  pc,               \* where each context is: "idle", "spin", "write", "halted"
  req,              \* the characters each context has still to write
  halt,             \* why a context halted (the panic it hit), "none" otherwise
  overflow_checks,  \* the build: TRUE panics on usize overflow, FALSE wraps
  events,           \* what the last write_char did, in order
  pixels,           \* the write_pixel calls of the last write_char: <<x, y, intensity>>
  last,             \* the operation the last step belonged to
  misused           \* force_unlock was called while a writer was in the critical section

vars == <<WRITER, info, framebuffer, x_pos, y_pos, locked, pc, req, halt,
          overflow_checks, events, pixels, last, misused>>

console == <<framebuffer, x_pos, y_pos>>

(***************************************************************************)
(* The glyph source (noto_sans_mono_bitmap): get_bitmap gives None for a   *)
(* character outside the font, and otherwise BITMAP_HEIGHT rows of         *)
(* BITMAP_LETTER_WIDTH intensities.                                        *)
(***************************************************************************)
GlyphA ==
  [row \in 0..(BITMAP_HEIGHT - 1) |->
     [col \in 0..(BITMAP_LETTER_WIDTH - 1) |->
        <<0, 200, 201, 255>>[((row + 2 * col) % 4) + 1]]]

GlyphB ==
  [row \in 0..(BITMAP_HEIGHT - 1) |->
     [col \in 0..(BITMAP_LETTER_WIDTH - 1) |->
        <<255, 100, 0, 201>>[((2 * row + col) % 4) + 1]]]

\* the decimal digits
Digits == <<"0", "1", "2", "3", "4", "5", "6", "7", "8", "9">>

\* the characters of the texts kernel_main prints; the font has a glyph for
\* each, and the model gives them all the bitmap of "A"
KernelChars == {"T", "e", "s", "t", "i", "m", ":", " "} \cup {Digits[i] : i \in 1..10}

get_bitmap(c) ==
  CASE c = "A" -> [some |-> TRUE, bitmap |-> GlyphA, width |-> BITMAP_LETTER_WIDTH]
    [] c = "B" -> [some |-> TRUE, bitmap |-> GlyphB, width |-> BITMAP_LETTER_WIDTH]
    [] c \in KernelChars ->
                  [some |-> TRUE, bitmap |-> GlyphA, width |-> BITMAP_LETTER_WIDTH]
    [] OTHER   -> [some |-> FALSE, bitmap |-> << >>, width |-> 0]

(***************************************************************************)
(* The Writer.  A writer value w carries the fields the methods change     *)
(* (framebuffer, x_pos, y_pos), the panic that stopped it (halt) and the   *)
(* record of what was done (events, pixels).  A panic ends the method:     *)
(* every later step of a halted w leaves it as it is.                      *)
(***************************************************************************)
Ok(w) == w.halt = "none"

Panic(w, why) == [w EXCEPT !.halt = why]

Did(w, what) == [w EXCEPT !.events = Append(@, what)]

\* a + b on usize: the build decides between a panic and wrapping
UsizeAdd(w, a, b) ==
  IF a + b >= UsizeModulus /\ overflow_checks
  THEN [w |-> Panic(w, "overflow"), v |-> 0]
  ELSE [w |-> w, v |-> (a + b) % UsizeModulus]

\* a - b on usize
UsizeSub(w, a, b) ==
  IF a < b /\ overflow_checks
  THEN [w |-> Panic(w, "overflow"), v |-> 0]
  ELSE [w |-> w, v |-> (a - b + UsizeModulus) % UsizeModulus]

width == info.horizontal_resolution

height == info.vertical_resolution

\* a carriage return that leaves the cursor where it is
carriage_return_Keep(w) == Did(w, "carriage_return")

carriage_return(w) == Did([w EXCEPT !.x_pos = 0], "carriage_return")

add_vspace(w, space) ==
  LET r == UsizeAdd(w, w.y_pos, space)
  IN IF Ok(r.w) THEN [w EXCEPT !.y_pos = r.v] ELSE r.w

\* newline with the spacing between log messages added to every line
newline_LogSpacing(w) ==
  LET r == UsizeAdd(w, w.y_pos, LINE_HEIGHT + LINE_SPACING)
  IN IF Ok(r.w)
     THEN carriage_return(add_vspace(Did([w EXCEPT !.y_pos = r.v], "newline"),
                                     LOG_SPACING))
     ELSE r.w

newline(w) ==
  LET r == UsizeAdd(w, w.y_pos, LINE_HEIGHT + LINE_SPACING)
  IN IF Ok(r.w)
     THEN carriage_return(Did([w EXCEPT !.y_pos = r.v], "newline"))
     ELSE r.w

\* a clear that resets the cursor and leaves the buffer as it is
clear_NoFill(w) == Did([w EXCEPT !.x_pos = 0, !.y_pos = 0], "clear")

clear(w) ==
  Did([w EXCEPT !.x_pos = 0, !.y_pos = 0,
                !.framebuffer = [i \in 1..Len(w.framebuffer) |-> 0]], "clear")

\* a single-channel threshold that includes 200
Color_Inclusive(intensity) ==
  CASE info.pixel_format = "RGB" -> <<intensity, intensity, intensity \div 2, 0>>
    [] info.pixel_format = "BGR" -> <<intensity \div 2, intensity, intensity, 0>>
    [] info.pixel_format = "U8"  -> <<IF intensity >= 200 THEN 15 ELSE 0, 0, 0, 0>>

\* the match of write_pixel: the four colour bytes of an intensity
Color(intensity) ==
  CASE info.pixel_format = "RGB" -> <<intensity, intensity, intensity \div 2, 0>>
    [] info.pixel_format = "BGR" -> <<intensity \div 2, intensity, intensity, 0>>
    [] info.pixel_format = "U8"  -> <<IF intensity > 200 THEN 15 ELSE 0, 0, 0, 0>>

\* framebuffer[byte_offset..byte_offset+n].copy_from_slice(&color[..n]), n <= 4
CopyFromSlice(fb, byte_offset, color, n) ==
  LET f1 == IF n >= 1 THEN [fb EXCEPT ![byte_offset + 1] = color[1]] ELSE fb
      f2 == IF n >= 2 THEN [f1 EXCEPT ![byte_offset + 2] = color[2]] ELSE f1
      f3 == IF n >= 3 THEN [f2 EXCEPT ![byte_offset + 3] = color[3]] ELSE f2
  IN IF n >= 4 THEN [f3 EXCEPT ![byte_offset + 4] = color[4]] ELSE f3

\* write_pixel with a byte offset of y * stride + x * bytes_per_pixel
write_pixel_ByteStride(w, x, y, intensity) ==
  LET bytes_per_pixel == info.bytes_per_pixel
      byte_offset == y * info.stride + x * bytes_per_pixel
      called == [w EXCEPT !.pixels = @ \cup {<<x, y, intensity>>}]
  IN IF info.pixel_format \notin {"RGB", "BGR", "U8"}
     THEN Panic(called, "unsupported pixel format")
     ELSE IF byte_offset + bytes_per_pixel > Len(w.framebuffer) \/ bytes_per_pixel > 4
     THEN Panic(called, "index out of bounds")
     ELSE [called EXCEPT !.framebuffer =
             CopyFromSlice(@, byte_offset, Color(intensity), bytes_per_pixel)]

write_pixel(w, x, y, intensity) ==
  LET pixel_offset == y * info.stride + x
      bytes_per_pixel == info.bytes_per_pixel
      byte_offset == pixel_offset * bytes_per_pixel
      called == [w EXCEPT !.pixels = @ \cup {<<x, y, intensity>>}]
  IN IF info.pixel_format \notin {"RGB", "BGR", "U8"}
     THEN Panic(called, "unsupported pixel format")
     ELSE IF byte_offset + bytes_per_pixel > Len(w.framebuffer) \/ bytes_per_pixel > 4
     THEN Panic(called, "index out of bounds")
     ELSE [called EXCEPT !.framebuffer =
             CopyFromSlice(@, byte_offset, Color(intensity), bytes_per_pixel)]

\* The loops below hand the writer on from pixel to pixel.  Each turn binds
\* the writer it produced through a one-element set, so that it is computed
\* once however often the next turn reads it.

\* the inner loop of write_rendered_char: row y of the glyph from column x on
RECURSIVE blit_row(_, _, _, _)
blit_row(w, g, y, x) ==
  IF x = g.width \/ ~Ok(w) THEN w
  ELSE CHOOSE r \in
         {blit_row(v, g, y, x + 1) :
            v \in {write_pixel(w, w.x_pos + x, w.y_pos + y, g.bitmap[y][x])}} : TRUE

\* the outer loop: the rows of the glyph from row y on
RECURSIVE blit(_, _, _)
blit(w, g, y) ==
  IF y = BITMAP_HEIGHT \/ ~Ok(w) THEN w
  ELSE CHOOSE r \in {blit(v, g, y + 1) : v \in {blit_row(w, g, y, 0)}} : TRUE

\* a write_rendered_char that does not advance the cursor
write_rendered_char_NoAdvance(w, g) ==
  CHOOSE r \in {IF Ok(v) THEN Did(v, "rendered") ELSE v : v \in {blit(w, g, 0)}} : TRUE

write_rendered_char(w, g) ==
  CHOOSE r \in
    {IF Ok(v) THEN Did([v EXCEPT !.x_pos = @ + g.width], "rendered") ELSE v :
       v \in {blit(w, g, 0)}} : TRUE

\* the wrap only once the cursor is past the width
WrapStep_Past(w) == IF w.x_pos > width THEN newline(w) ELSE w

\* the wrap of write_char
WrapStep(w) == IF w.x_pos >= width THEN newline(w) ELSE w

\* the bottom-margin test of write_char
MarginStep(w) ==
  IF ~Ok(w) THEN w
  ELSE LET r == UsizeSub(w, height, BITMAP_LETTER_WIDTH)
       IN IF ~Ok(r.w) THEN r.w
          ELSE IF w.y_pos >= r.v THEN clear(w) ELSE w

\* a character without a glyph is left out
GlyphStep_Skip(w, c) ==
  IF ~Ok(w) THEN w
  ELSE LET g == get_bitmap(c)
       IN IF g.some THEN write_rendered_char(Did(w, "get_bitmap"), g)
          ELSE Did(w, "get_bitmap")

\* a margin test that clears instead of rendering
GlyphStep_InsteadOfRender(w, c) ==
  IF ~Ok(w) \/ (\E i \in 1..Len(w.events) : w.events[i] = "clear") THEN w
  ELSE LET g == get_bitmap(c)
       IN IF g.some THEN write_rendered_char(Did(w, "get_bitmap"), g)
          ELSE Panic(Did(w, "get_bitmap"), "no glyph")

\* get_bitmap(..).unwrap() and write_rendered_char
GlyphStep(w, c) ==
  IF ~Ok(w) THEN w
  ELSE LET g == get_bitmap(c)
       IN IF g.some THEN write_rendered_char(Did(w, "get_bitmap"), g)
          ELSE Panic(Did(w, "get_bitmap"), "no glyph")

write_char(w, c) ==
  CASE c = LF -> newline(w)
    [] c = CR -> carriage_return(w)
    [] OTHER  ->
         CHOOSE r \in
           {GlyphStep(m, c) : m \in {MarginStep(v) : v \in {WrapStep(w)}}} : TRUE

\* the Writer of the current state, about to run one write_char
Self == [framebuffer |-> framebuffer, x_pos |-> x_pos, y_pos |-> y_pos,
         halt |-> "none", events |-> << >>, pixels |-> {}]

(***************************************************************************)
(* Writer::new and LockedWriter::new, run by the closure of get_or_init.   *)
(***************************************************************************)
\* the bytes kernel_main leaves in the buffer before it hands it over
Gray(n) == [i \in 1..n |-> (i - 1) % 255]

WriterNew(buffer) ==
  clear([framebuffer |-> buffer, x_pos |-> 0, y_pos |-> 0,
         halt |-> "none", events |-> << >>, pixels |-> {}])

(***************************************************************************)
(* Actions.                                                                *)
(***************************************************************************)
TypeOK ==
  /\ WRITER \in {"Uninit", "Init"}
  /\ info.pixel_format \in {"RGB", "BGR", "U8", "Other", "None"}
  /\ info.byte_len = info.stride * info.vertical_resolution * info.bytes_per_pixel
  /\ x_pos \in Nat /\ y_pos \in Nat
  /\ locked \in BOOLEAN
  /\ pc \in [Procs -> {"idle", "spin", "write", "halted"}]
  /\ overflow_checks \in BOOLEAN
  /\ last \in {"boot", "kernel_main", "get_or_init", "printf", "lock", "write_char",
              "write_pixel", "clear", "unlock", "force_unlock"}
  /\ misused \in BOOLEAN

InitWith(B) ==
  /\ WRITER = "Uninit"
  /\ info = NoInfo
  /\ framebuffer = << >>
  /\ x_pos = 0
  /\ y_pos = 0
  /\ locked = FALSE
  /\ pc = [p \in Procs |-> "idle"]
  /\ req = [p \in Procs |-> << >>]
  /\ halt = [p \in Procs |-> "none"]
  /\ overflow_checks \in B
  /\ events = << >>
  /\ pixels = {}
  /\ last = "boot"
  /\ misused = FALSE

\* a cell that runs the closure and stores its value on every call
GetOrInit_Replace(p, layout) ==
  /\ pc[p] = "idle"
  /\ LET w == WriterNew(Gray(layout.byte_len))
     IN /\ WRITER' = "Init"
        /\ info' = layout
        /\ framebuffer' = w.framebuffer
        /\ x_pos' = w.x_pos
        /\ y_pos' = w.y_pos
        /\ events' = w.events
        /\ pixels' = w.pixels
  /\ last' = "get_or_init"
  /\ UNCHANGED <<locked, pc, req, halt, overflow_checks, misused>>

\* WRITER.get_or_init(move || LockedWriter::new(buffer, info))
GetOrInit(p, layout) ==
  /\ pc[p] = "idle"
  /\ IF WRITER = "Uninit"
     THEN LET w == WriterNew(Gray(layout.byte_len))
          IN /\ WRITER' = "Init"
             /\ info' = layout
             /\ framebuffer' = w.framebuffer
             /\ x_pos' = w.x_pos
             /\ y_pos' = w.y_pos
             /\ events' = w.events
             /\ pixels' = w.pixels
     ELSE UNCHANGED <<WRITER, info, framebuffer, x_pos, y_pos, events, pixels>>
  /\ last' = "get_or_init"
  /\ UNCHANGED <<locked, pc, req, halt, overflow_checks, misused>>

\* a write_fmt that goes to the Writer without lock()
Printf_NoLock(p, s) ==
  /\ pc[p] = "idle"
  /\ y_pos <= MaxLine * (LINE_HEIGHT + LINE_SPACING)
  /\ IF WRITER = "Init"
     THEN /\ pc' = [pc EXCEPT ![p] = "write"]
          /\ req' = [req EXCEPT ![p] = s]
          /\ UNCHANGED halt
     ELSE /\ pc' = [pc EXCEPT ![p] = "halted"]
          /\ halt' = [halt EXCEPT ![p] = "uninit"]
          /\ UNCHANGED req
  /\ last' = "printf"
  /\ UNCHANGED <<WRITER, info, framebuffer, x_pos, y_pos, locked,
                 overflow_checks, events, pixels,
                 misused>>

\* a printf! that waits for the cell instead of unwrapping it
Printf_Waits(p, s) ==
  /\ pc[p] = "idle"
  /\ y_pos <= MaxLine * (LINE_HEIGHT + LINE_SPACING)
  /\ pc' = [pc EXCEPT ![p] = "spin"]
  /\ req' = [req EXCEPT ![p] = s]
  /\ last' = "printf"
  /\ UNCHANGED <<WRITER, info, framebuffer, x_pos, y_pos, locked, halt,
                 overflow_checks, events, pixels,
                 misused>>

\* printf!(..): WRITER.get().unwrap(), then LockedWriter::write_fmt is entered
Printf(p, s) ==
  /\ pc[p] = "idle"
  /\ y_pos <= MaxLine * (LINE_HEIGHT + LINE_SPACING)
  /\ IF WRITER = "Init"
     THEN /\ pc' = [pc EXCEPT ![p] = "spin"]
          /\ req' = [req EXCEPT ![p] = s]
          /\ UNCHANGED halt
     ELSE /\ pc' = [pc EXCEPT ![p] = "halted"]
          /\ halt' = [halt EXCEPT ![p] = "uninit"]
          /\ UNCHANGED req
  /\ last' = "printf"
  /\ UNCHANGED <<WRITER, info, framebuffer, x_pos, y_pos, locked,
                 overflow_checks, events, pixels,
                 misused>>

\* a lock() that sets the flag without testing it
Lock_NoTest(p) ==
  /\ pc[p] = "spin"
  /\ locked' = TRUE
  /\ pc' = [pc EXCEPT ![p] = "write"]
  /\ last' = "lock"
  /\ UNCHANGED <<WRITER, info, framebuffer, x_pos, y_pos, req, halt,
                 overflow_checks, events, pixels,
                 misused>>

\* self.0.lock(): the spin loop leaves only when it finds the flag clear
Lock(p) ==
  /\ pc[p] = "spin"
  /\ ~locked
  /\ locked' = TRUE
  /\ pc' = [pc EXCEPT ![p] = "write"]
  /\ last' = "lock"
  /\ UNCHANGED <<WRITER, info, framebuffer, x_pos, y_pos, req, halt,
                 overflow_checks, events, pixels,
                 misused>>

\* one turn of the loop of write_str
WriteChar(p) ==
  /\ pc[p] = "write"
  /\ req[p] # << >>
  /\ \E w \in {write_char(Self, Head(req[p]))} :
        /\ framebuffer' = w.framebuffer
        /\ x_pos' = w.x_pos
        /\ y_pos' = w.y_pos
        /\ events' = w.events
        /\ pixels' = w.pixels
        /\ IF Ok(w)
           THEN /\ req' = [req EXCEPT ![p] = Tail(@)]
                /\ UNCHANGED <<pc, halt>>
           ELSE /\ pc' = [pc EXCEPT ![p] = "halted"]
                /\ halt' = [halt EXCEPT ![p] = w.halt]
                /\ UNCHANGED req
  /\ last' = "write_char"
  /\ UNCHANGED <<WRITER, info, locked, overflow_checks, misused>>

\* a write_fmt that returns with the guard leaked
Unlock_Leak(p) ==
  /\ pc[p] = "write"
  /\ req[p] = << >>
  /\ pc' = [pc EXCEPT ![p] = "idle"]
  /\ last' = "unlock"
  /\ UNCHANGED <<WRITER, info, framebuffer, x_pos, y_pos, locked, req, halt,
                 overflow_checks, events, pixels,
                 misused>>

\* write_fmt returns and the guard of lock() is dropped
Unlock(p) ==
  /\ pc[p] = "write"
  /\ req[p] = << >>
  /\ locked' = FALSE
  /\ pc' = [pc EXCEPT ![p] = "idle"]
  /\ last' = "unlock"
  /\ UNCHANGED <<WRITER, info, framebuffer, x_pos, y_pos, req, halt,
                 overflow_checks, events, pixels,
                 misused>>

\* a force_unlock that does not reach the spinlock
ForceUnlock_Nothing(p) ==
  /\ pc[p] = "idle"
  /\ WRITER = "Init"
  /\ misused' = (misused \/ \E q \in Procs : pc[q] = "write")
  /\ last' = "force_unlock"
  /\ UNCHANGED <<WRITER, info, framebuffer, x_pos, y_pos, locked, pc, req, halt,
                 overflow_checks, events, pixels>>

\* LockedWriter::force_unlock
ForceUnlock(p) ==
  /\ pc[p] = "idle"
  /\ WRITER = "Init"
  /\ locked' = FALSE
  /\ misused' = (misused \/ \E q \in Procs : pc[q] = "write")
  /\ last' = "force_unlock"
  /\ UNCHANGED <<WRITER, info, framebuffer, x_pos, y_pos, pc, req, halt,
                 overflow_checks, events, pixels>>

(***************************************************************************)
(* Spec: one context writes to a console of any layout, in either build.   *)
(***************************************************************************)
Init == InitWith(BOOLEAN)

Next ==
  \/ \E layout \in Layouts : GetOrInit(1, layout)
  \/ \E s \in Requests : Printf(1, s)
  \/ Lock(1)
  \/ WriteChar(1)
  \/ Unlock(1)

Spec == Init /\ [][Next]_vars

(***************************************************************************)
(* SpecLock: NumProcs contexts share the handle, and force_unlock is       *)
(* called.  No layout of this specification reaches a usize overflow, so   *)
(* the build makes no difference to it.                                    *)
(***************************************************************************)
LockLayouts == {LayoutOneCell, LayoutOther}

LockRequests == {<<"A", "B">>, <<LF, "B">>, <<"B", NoGlyphChar>>}

InitLock == InitWith({TRUE})

NextLock ==
  \/ \E p \in Procs, layout \in LockLayouts : GetOrInit(p, layout)
  \/ \E p \in Procs, s \in LockRequests : Printf(p, s)
  \/ \E p \in Procs : Lock(p)
  \/ \E p \in Procs : WriteChar(p)
  \/ \E p \in Procs : Unlock(p)
  \/ \E p \in Procs : ForceUnlock(p)

SpecLock == InitLock /\ [][NextLock]_vars

(***************************************************************************)
(* SpecFair: the contexts write to one console, and a context inside the   *)
(* critical section runs on: no core is stopped for ever in the middle of  *)
(* write_fmt.  Nothing is assumed about which spinning context gets the    *)
(* lock.                                                                   *)
(***************************************************************************)
FairRequests == {<<"A", "B">>, <<"B", NoGlyphChar>>}

NextFair ==
  \/ \E p \in Procs : GetOrInit(p, LayoutOneCell)
  \/ \E p \in Procs, s \in FairRequests : Printf(p, s)
  \/ \E p \in Procs : Lock(p)
  \/ \E p \in Procs : WriteChar(p)
  \/ \E p \in Procs : Unlock(p)

SpecFair ==
  /\ InitLock
  /\ [][NextFair]_vars
  /\ \A p \in Procs : WF_vars(WriteChar(p) \/ Unlock(p))

(***************************************************************************)
(* Vocabulary of the claims.                                               *)
(***************************************************************************)
\* the contexts inside the critical section and running
Inside == {p \in Procs : pc[p] = "write"}

\* p hit a panic inside write_char: it holds its guard and never drops it
Stuck(p) == pc[p] = "halted" /\ halt[p] \notin {"none", "uninit"}

\* the step is a turn of p's write_str loop
Wrote(p) ==
  /\ last' = "write_char"
  /\ pc[p] = "write"
  /\ req[p] # << >>
  /\ \/ req'[p] = Tail(req[p]) /\ pc'[p] = "write"
     \/ req'[p] = req[p] /\ pc'[p] = "halted"

Zeroed(fb) == \A i \in 1..Len(fb) : fb[i] = 0

(***************************************************************************)
(* C1.  As long as force_unlock has only been called while no writer was   *)
(* inside the critical section, at most one writer is inside it, and every *)
(* change of the buffer or the cursor is made by that one writer, as one   *)
(* turn of its own request, while every other request rests: the changes   *)
(* of two calls never interleave.                                          *)
(***************************************************************************)
C1_Serialized ==
  /\ [](~misused => Cardinality(Inside) <= 1)
  /\ [][(~misused' /\ WRITER = "Init" /\ console' # console)
          => \E p \in Procs :
               /\ Inside = {p}
               /\ Wrote(p)
               /\ \A q \in Procs \ {p} : req'[q] = req[q] /\ pc'[q] = pc[q]]_vars

\* two requests are in flight, one writer is half way through its text
C1_Witness ==
  /\ ~misused
  /\ \E p, q \in Procs :
       /\ pc[p] = "write" /\ Len(req[p]) = 1 /\ ~Zeroed(framebuffer)
       /\ pc[q] = "spin"

(***************************************************************************)
(* C2.  A writer inside the critical section that meets no panic writes    *)
(* its characters and returns, and the step by which it returns leaves     *)
(* the lock free.                                                          *)
(***************************************************************************)
C2_ReturnsAndReleases ==
  /\ \A p \in Procs : (pc[p] = "write") ~> (pc[p] \in {"idle", "halted"})
  /\ [][\A p \in Procs : (pc[p] = "write" /\ pc'[p] = "idle") => ~locked']_vars

\* a writer has returned from a request that changed the buffer
C2_Witness ==
  /\ last = "unlock"
  /\ ~locked
  /\ ~Zeroed(framebuffer)
  /\ \A p \in Procs : pc[p] = "idle"

StuckHeld == locked /\ Inside = {} /\ \E h \in Procs : Stuck(h)

C4_StuckHolderBlocks ==
  [][StuckHeld
      => /\ console' = console
         /\ \A q \in Procs : pc[q] = "spin" => pc'[q] = "spin"
         /\ locked' = (last' # "force_unlock")]_vars

\* a writer spins on the lock a stuck writer holds
C4_Witness == StuckHeld /\ ~misused /\ \E q \in Procs : pc[q] = "spin"

(***************************************************************************)
(* C5.  Once the cell is filled, a get_or_init changes nothing: the cell   *)
(* stays filled, the layout, the buffer, the cursor and the lock are as    *)
(* they were.                                                              *)
(***************************************************************************)
C5_InitOnce ==
  [][(WRITER = "Init")
      => /\ WRITER' = "Init"
         /\ info' = info
         /\ Len(framebuffer') = Len(framebuffer)
         /\ last' = "get_or_init" => (console' = console /\ locked' = locked)]_vars

\* a get_or_init was called on a console that shows text, held by a writer
C5_Witness ==
  /\ last = "get_or_init"
  /\ ~Zeroed(framebuffer)
  /\ \E p \in Procs : pc[p] = "write"

(***************************************************************************)
(* C6.  printf! on the empty cell halts the caller: it takes no lock and   *)
(* changes neither the buffer nor the cursor, and a halted context does    *)
(* nothing more.                                                           *)
(***************************************************************************)
C6_UninitFatal ==
  [][\A p \in Procs :
       /\ (WRITER = "Uninit" /\ last' = "printf" /\ pc'[p] # pc[p])
            => /\ pc'[p] = "halted" /\ halt'[p] = "uninit"
               /\ locked' = locked /\ ~locked'
               /\ console' = console
               /\ WRITER' = "Uninit"
       /\ pc[p] = "halted" => (pc'[p] = "halted" /\ req'[p] = req[p])]_vars

\* a context halted on the empty cell, and the cell was filled afterwards
C6_Witness == \E p \in Procs : halt[p] = "uninit" /\ pc[p] = "halted" /\ WRITER = "Init"

(***************************************************************************)
(* Vocabulary of the claims about the cursor and the glyphs.               *)
(***************************************************************************)
Visible(c) == c \notin {LF, CR}

\* how often write_char did `what`
Count(ev, what) == Cardinality({i \in 1..Len(ev) : ev[i] = what})

\* the write_char of the step ran to its end
Completed(p) == pc'[p] = "write"

\* the pixel format is one write_pixel knows, a pixel has at most four bytes
\* and the buffer holds at least stride * vertical_resolution bytes
Supported ==
  /\ info.pixel_format \in {"RGB", "BGR", "U8"}
  /\ info.bytes_per_pixel <= 4
  /\ Len(framebuffer) >= info.stride * info.vertical_resolution

\* byte b of the pixel with index q is byte q * bytes_per_pixel + b of the slice
ByteAt(fb, q, b) == fb[q * info.bytes_per_pixel + b + 1]

\* fb shows the glyph of c with its top left corner at pixel (x0, y0)
CellHolds(fb, x0, y0, c) ==
  \A row \in 0..(BITMAP_HEIGHT - 1), col \in 0..(BITMAP_LETTER_WIDTH - 1),
     b \in 0..(info.bytes_per_pixel - 1) :
       ByteAt(fb, (y0 + row) * info.stride + x0 + col, b)
         = Color(get_bitmap(c).bitmap[row][col])[b + 1]

\* fb shows the glyph of c at the origin and is zero everywhere else
OnlyGlyphAtOrigin(fb, c) ==
  /\ CellHolds(fb, 0, 0, c)
  /\ \A q \in 0..((Len(fb) \div info.bytes_per_pixel) - 1),
        b \in 0..(info.bytes_per_pixel - 1) :
          (q % info.stride >= BITMAP_LETTER_WIDTH \/ q \div info.stride >= BITMAP_HEIGHT)
            => ByteAt(fb, q, b) = 0

(***************************************************************************)
(* C7 as the spec states it: the cursor is never negative and cursor_y     *)
(* never exceeds the height.                                               *)
(***************************************************************************)
C7_CursorWithinHeight ==
  WRITER = "Init" => (0 <= x_pos /\ 0 <= y_pos /\ y_pos <= height)

(***************************************************************************)
(* C7, amended.  The cursor is never negative, cursor_x is at most the     *)
(* width plus one glyph width, cursor_y is a multiple of the line height,  *)
(* and cursor_y is at most the height right after a visible character was  *)
(* rendered on a console at least one glyph width high.                    *)
(***************************************************************************)
C7_CursorRange ==
  WRITER = "Init" =>
    /\ 0 <= x_pos /\ x_pos <= width + BITMAP_LETTER_WIDTH
    /\ 0 <= y_pos /\ y_pos % (LINE_HEIGHT + LINE_SPACING) = 0
    /\ (/\ last = "write_char"
        /\ events # << >> /\ events[Len(events)] = "rendered"
        /\ height >= BITMAP_LETTER_WIDTH) => y_pos <= height

\* newlines took the cursor below the last row
C7_Witness ==
  /\ WRITER = "Init" /\ last = "write_char"
  /\ y_pos > height /\ height >= BITMAP_LETTER_WIDTH

(***************************************************************************)
(* C8 as the spec states it: on a console with a known pixel format, at    *)
(* most four bytes per pixel and a buffer of stride * vertical_resolution  *)
(* bytes or more, a writer halts only for a character without a glyph or   *)
(* for the empty cell.                                                     *)
(***************************************************************************)
C8_OnlyDocumentedHalts ==
  (WRITER = "Init" /\ Supported)
    => \A p \in Procs : halt[p] \in {"none", "uninit", "no glyph"}

(***************************************************************************)
(* C9.  A visible character written with cursor_x >= width makes exactly   *)
(* one newline transition, and makes it first; when the write runs to its  *)
(* end the glyph stands at column 0 of the line the cursor is then on      *)
(* (the next line, or line 0 after a clear) and cursor_x is the glyph      *)
(* width.  Written with cursor_x < width it makes no newline transition.   *)
(***************************************************************************)
C9_WrapLaw ==
  [][\A p \in Procs :
       (Wrote(p) /\ Visible(Head(req[p]))) =>
         LET c == Head(req[p])
             cleared == Count(events', "clear") > 0
         IN /\ x_pos >= width =>
                 /\ Count(events', "newline") = 1
                 /\ events'[1] = "newline" /\ events'[2] = "carriage_return"
                 /\ Completed(p) =>
                      /\ x_pos' = get_bitmap(c).width
                      /\ y_pos' = IF cleared THEN 0
                                  ELSE y_pos + LINE_HEIGHT + LINE_SPACING
                      /\ CellHolds(framebuffer', 0, y_pos', c)
            /\ x_pos < width =>
                 /\ Count(events', "newline") = 0
                 /\ (Completed(p) /\ ~cleared) =>
                      /\ x_pos' = x_pos + get_bitmap(c).width
                      /\ y_pos' = y_pos
                      /\ CellHolds(framebuffer', x_pos, y_pos, c)]_vars

\* a character wrapped to the second line of a console that shows two lines
C9_Witness ==
  /\ last = "write_char"
  /\ events = <<"newline", "carriage_return", "get_bitmap", "rendered">>
  /\ y_pos = LINE_HEIGHT + LINE_SPACING
  /\ x_pos = BITMAP_LETTER_WIDTH
  /\ \A p \in Procs : pc[p] # "halted"

(***************************************************************************)
(* C10 as the spec states it: a visible character that has a glyph,        *)
(* written when cursor_y (after the wrap, if any) is at least              *)
(* height - max_glyph_width, leaves the buffer zero but for its own glyph  *)
(* at the origin, and the cursor at (glyph width, 0).                      *)
(***************************************************************************)
C10_OverflowClearLaw ==
  [][\A p \in Procs :
       (/\ Wrote(p)
        /\ get_bitmap(Head(req[p])).some
        /\ Supported
        /\ (IF x_pos >= width THEN y_pos + LINE_HEIGHT + LINE_SPACING ELSE y_pos)
             >= height - BITMAP_LETTER_WIDTH)
       => /\ x_pos' = get_bitmap(Head(req[p])).width
          /\ y_pos' = 0
          /\ OnlyGlyphAtOrigin(framebuffer', Head(req[p]))]_vars

(***************************************************************************)
(* Vocabulary of the claims about the bottom margin.                       *)
(***************************************************************************)
\* cursor_y of the current state once the wrap of a visible character is done
WrappedY == IF x_pos >= width THEN y_pos + LINE_HEIGHT + LINE_SPACING ELSE y_pos

\* height - max_glyph_width as the machine computes it, when it does not abort
MachineMargin == (height - BITMAP_LETTER_WIDTH + UsizeModulus) % UsizeModulus

\* the subtraction of the margin test aborts the write
MarginAborts == overflow_checks /\ height < BITMAP_LETTER_WIDTH

\* the margin test is reached and true
MarginTrue == ~MarginAborts /\ WrappedY >= MachineMargin

(***************************************************************************)
(* C11 as the spec states it: a visible character written while cursor_y   *)
(* (after the wrap) is at least height - max_glyph_width is not rendered:   *)
(* the write makes no compositor call and leaves the buffer all zero and   *)
(* the cursor at (0,0); a glyph is rendered only when cursor_y is below    *)
(* height - max_glyph_width.                                               *)
(***************************************************************************)
C11_ClearInsteadOfRender ==
  [][\A p \in Procs :
       (Wrote(p) /\ Visible(Head(req[p]))) =>
         /\ WrappedY >= height - BITMAP_LETTER_WIDTH =>
              /\ Count(events', "rendered") = 0
              /\ pixels' = {}
              /\ Zeroed(framebuffer')
              /\ x_pos' = 0 /\ y_pos' = 0
         /\ Count(events', "rendered") > 0 =>
              WrappedY < height - BITMAP_LETTER_WIDTH]_vars

(***************************************************************************)
(* C11, amended.  When the margin test of a visible character, computed    *)
(* after the wrap on machine words, is reached and true, the write clears  *)
(* exactly once, after the wrap and before the glyph is looked up, and     *)
(* then renders: a write that runs to its end leaves the buffer zero but   *)
(* for the glyph at the origin and the cursor at (glyph width, 0), and a   *)
(* character without a glyph halts on the zeroed buffer with the cursor at *)
(* (0,0).  When the test is not true nothing is cleared.                   *)
(***************************************************************************)
C11_ClearThenRender ==
  [][\A p \in Procs :
       (Wrote(p) /\ Visible(Head(req[p]))) =>
         LET c == Head(req[p])
             n == Len(events')
         IN /\ MarginTrue =>
                 /\ Count(events', "clear") = 1
                 /\ \E i \in 1..n :
                      /\ events'[i] = "clear"
                      /\ \A j \in 1..(i - 1) : events'[j] \in {"newline", "carriage_return"}
                      /\ i < n /\ events'[i + 1] = "get_bitmap"
                 /\ (get_bitmap(c).some /\ Completed(p)) =>
                      /\ events'[n] = "rendered"
                      /\ x_pos' = get_bitmap(c).width /\ y_pos' = 0
                      /\ OnlyGlyphAtOrigin(framebuffer', c)
                 /\ ~get_bitmap(c).some =>
                      /\ ~Completed(p)
                      /\ Zeroed(framebuffer')
                      /\ x_pos' = 0 /\ y_pos' = 0
            /\ ~MarginTrue => Count(events', "clear") = 0]_vars

\* a character was rendered at the origin by the write that cleared the console
C11_Witness ==
  /\ last = "write_char"
  /\ Count(events, "clear") = 1
  /\ events[Len(events)] = "rendered"
  /\ pixels # {}
  /\ ~Zeroed(framebuffer)
  /\ x_pos = BITMAP_LETTER_WIDTH /\ y_pos = 0

(***************************************************************************)
(* C12 as the spec states it: the bottom-margin test is decided as over    *)
(* the integers on every layout.  A visible character never halts on the   *)
(* subtraction, and its write clears exactly when cursor_y (after the      *)
(* wrap) is at least height - max_glyph_width, a negative number on a      *)
(* console lower than a glyph is wide.                                     *)
(***************************************************************************)
C12_MarginOverIntegers ==
  [][\A p \in Procs :
       (Wrote(p) /\ Visible(Head(req[p]))) =>
         /\ halt'[p] # "overflow"
         /\ (WrappedY >= height - BITMAP_LETTER_WIDTH)
              <=> (Count(events', "clear") >= 1)]_vars

(***************************************************************************)
(* SpecWriter: the methods of Writer called one by one on small consoles   *)
(* by one context while it holds the guard: write_char through write_str,  *)
(* clear, and write_pixel with every coordinate up to MaxCoord and every   *)
(* u8 intensity.  write_pixel is called once on a zeroed buffer, so that   *)
(* the buffer shows at most one pixel.                                     *)
(***************************************************************************)
\* largest coordinate handed to write_pixel
MaxCoord == 2

\* u8
Intensities == 0..255

\* two rows of two pixels and one pixel of padding
PixelLayouts ==
  {Layout(2, 2, 3, 4, "RGB"), Layout(2, 2, 3, 3, "BGR"),
   Layout(2, 2, 3, 1, "U8"), Layout(2, 2, 3, 1, "Other")}

WriterRequests == {<<LF>>}

\* self.write_pixel(x, y, intensity)
WritePixel(p, x, y, intensity) ==
  /\ pc[p] = "write"
  /\ pixels = {}
  /\ \A i \in 1..Len(framebuffer) : framebuffer[i] = 0
  /\ \E w \in {write_pixel(Self, x, y, intensity)} :
        /\ framebuffer' = w.framebuffer
        /\ events' = w.events
        /\ pixels' = w.pixels
        /\ IF Ok(w)
           THEN UNCHANGED <<pc, halt>>
           ELSE /\ pc' = [pc EXCEPT ![p] = "halted"]
                /\ halt' = [halt EXCEPT ![p] = w.halt]
  /\ last' = "write_pixel"
  /\ UNCHANGED <<WRITER, info, x_pos, y_pos, locked, req, overflow_checks, misused>>

\* self.clear()
Clear(p) ==
  /\ pc[p] = "write"
  /\ \E w \in {clear(Self)} :
        /\ framebuffer' = w.framebuffer
        /\ x_pos' = w.x_pos
        /\ y_pos' = w.y_pos
        /\ events' = w.events
  /\ last' = "clear"
  /\ UNCHANGED <<WRITER, info, locked, pc, req, halt, overflow_checks, pixels,
                 misused>>

NextWriter ==
  \/ \E layout \in PixelLayouts : GetOrInit(1, layout)
  \/ \E s \in WriterRequests : Printf(1, s)
  \/ Lock(1)
  \/ WriteChar(1)
  \/ \E x \in 0..MaxCoord, y \in 0..MaxCoord, intensity \in Intensities :
       WritePixel(1, x, y, intensity)
  \/ Clear(1)

SpecWriter == InitLock /\ [][NextWriter]_vars

(***************************************************************************)
(* Vocabulary of the claims about the compositor.                          *)
(***************************************************************************)
\* the colour bytes the spec gives for an intensity under a format tag
DocumentedColor(f, i) ==
  CASE f = "RGB" -> <<i, i, i \div 2, 0>>
    [] f = "BGR" -> <<i \div 2, i, i, 0>>
    [] f = "U8"  -> <<IF i > 200 THEN 15 ELSE 0, 0, 0, 0>>

KnownFormat == info.pixel_format \in {"RGB", "BGR", "U8"}

\* the step stored the first bytes_per_pixel colour bytes of intensity i from
\* byte offset off on, and changed no other byte
StoredAt(off, i) ==
  /\ Len(framebuffer') = Len(framebuffer)
  /\ \A k \in 1..Len(framebuffer) :
       IF k - 1 >= off /\ k - 1 < off + info.bytes_per_pixel
       THEN framebuffer'[k] = DocumentedColor(info.pixel_format, i)[k - off]
       ELSE framebuffer'[k] = framebuffer[k]

\* the step halted the writer with the panic `why`, and changed no byte
FatalStep(why) ==
  /\ framebuffer' = framebuffer
  /\ \A p \in Procs : pc[p] = "write" => (pc'[p] = "halted" /\ halt'[p] = why)

(***************************************************************************)
(* C13.  A write_pixel call under one of the three known formats, for any  *)
(* intensity 0..255, stores the first bytes_per_pixel bytes of             *)
(* [i, i, i div 2, 0] (RGB), [i div 2, i, i, 0] (BGR) or                   *)
(* [15 if i > 200 else 0, 0, 0, 0] (single channel) at the pixel, and no   *)
(* other byte; under any other format tag it is fatal and stores nothing.  *)
(***************************************************************************)
C13_ColorTable ==
  [][last' = "write_pixel" =>
       /\ Cardinality(pixels') = 1
       /\ \A t \in pixels' :
            LET off == (t[2] * info.stride + t[1]) * info.bytes_per_pixel
            IN IF ~KnownFormat THEN FatalStep("unsupported pixel format")
               ELSE off + info.bytes_per_pixel <= Len(framebuffer)
                      => StoredAt(off, t[3])]_vars

\* intensity 201 was stored as 0x0F in the padding column of a single-channel
\* console
C13_Witness ==
  /\ last = "write_pixel"
  /\ info.pixel_format = "U8"
  /\ pixels = {<<2, 1, 201>>}
  /\ framebuffer[1 * info.stride + 2 + 1] = 15
  /\ \A p \in Procs : pc[p] # "halted"

(***************************************************************************)
(* C14 as the spec states it: the colour bytes of pixel (x, row) start at  *)
(* byte offset row * stride + x * bytes_per_pixel, stride counting the     *)
(* bytes of a row, and no byte outside them changes.                       *)
(***************************************************************************)
C14_ByteStride ==
  [][(last' = "write_pixel" /\ KnownFormat /\ \A p \in Procs : pc'[p] # "halted") =>
       \A t \in pixels' :
         StoredAt(t[2] * info.stride + t[1] * info.bytes_per_pixel, t[3])]_vars

(***************************************************************************)
(* C14, amended.  The colour bytes of pixel (x, row) start at byte offset  *)
(* (row * stride + x) * bytes_per_pixel, stride counting the pixels of a   *)
(* row, and no byte outside them changes; when they do not lie inside the  *)
(* buffer the call is fatal and changes no byte.                           *)
(***************************************************************************)
C14_PixelStride ==
  [][(last' = "write_pixel" /\ KnownFormat) =>
       \A t \in pixels' :
         LET off == (t[2] * info.stride + t[1]) * info.bytes_per_pixel
         IN IF off + info.bytes_per_pixel <= Len(framebuffer)
            THEN StoredAt(off, t[3]) /\ \A p \in Procs : pc'[p] # "halted"
            ELSE FatalStep("index out of bounds")]_vars

\* a pixel of four bytes was stored in the second row
C14_Witness ==
  /\ last = "write_pixel"
  /\ info.bytes_per_pixel = 4
  /\ pixels = {<<1, 1, 255>>}
  /\ framebuffer[(1 * info.stride + 1) * 4 + 1] = 255
  /\ framebuffer[1 * info.stride + 1 * 4 + 1] = 0

(***************************************************************************)
(* C15.  clear never fails and leaves the buffer all zero, at its length,  *)
(* and the cursor at (0,0), whatever the console showed; clear applied to  *)
(* the state a clear left gives that state again; and a newly created      *)
(* console is in the state clear leaves, whatever the buffer held when it  *)
(* was handed over.                                                        *)
(***************************************************************************)
C15_ClearLaw ==
  /\ [](last = "clear" =>
          LET again == clear(Self)
          IN /\ again.framebuffer = framebuffer
             /\ again.x_pos = x_pos /\ again.y_pos = y_pos
             /\ Ok(again))
  /\ [][/\ last' = "clear" =>
             /\ Zeroed(framebuffer') /\ Len(framebuffer') = Len(framebuffer)
             /\ x_pos' = 0 /\ y_pos' = 0
             /\ pc' = pc /\ halt' = halt
        /\ (WRITER = "Uninit" /\ WRITER' = "Init") =>
             /\ Zeroed(framebuffer') /\ Len(framebuffer') = info'.byte_len
             /\ x_pos' = 0 /\ y_pos' = 0
             /\ \A n \in 0..info'.byte_len :
                  LET made == WriterNew([i \in 1..info'.byte_len |-> IF i <= n THEN 255 ELSE 0])
                  IN /\ made.framebuffer = framebuffer'
                     /\ made.x_pos = x_pos' /\ made.y_pos = y_pos']_vars

\* clear was called on a console that showed a pixel, with the cursor on the
\* second line
C15_Witness ==
  /\ last = "clear"
  /\ \E t \in pixels : t[3] = 255 /\ t[1] < MaxCoord /\ t[2] < 2
  /\ Zeroed(framebuffer)
  /\ x_pos = 0 /\ y_pos = 0
  /\ KnownFormat
  /\ \A p \in Procs : req[p] = << >> /\ pc[p] # "halted"

(***************************************************************************)
(* C16.  Writing a line feed adds the line height 14 to cursor_y and sets  *)
(* cursor_x to 0; writing a carriage return sets cursor_x to 0 and leaves  *)
(* cursor_y.  Neither looks up a glyph, calls the compositor, changes a    *)
(* byte of the buffer, wraps, clears or halts the writer, whatever the     *)
(* pixel format and wherever the cursor is.                                *)
(***************************************************************************)
C16_ControlCharacters ==
  [][\A p \in Procs :
       (Wrote(p) /\ ~Visible(Head(req[p]))) =>
         /\ Head(req[p]) = LF =>
              /\ y_pos' = y_pos + 14 /\ x_pos' = 0
              /\ events' = <<"newline", "carriage_return">>
         /\ Head(req[p]) = CR =>
              /\ y_pos' = y_pos /\ x_pos' = 0
              /\ events' = <<"carriage_return">>
         /\ framebuffer' = framebuffer
         /\ pixels' = {}
         /\ Completed(p) /\ halt' = halt]_vars

\* a carriage return took the cursor back from the right edge of a console that
\* shows a glyph
C16_Witness ==
  /\ last = "write_char"
  /\ events = <<"carriage_return">>
  /\ ~Zeroed(framebuffer)
  /\ width = BITMAP_LETTER_WIDTH
  /\ x_pos = 0 /\ y_pos = 0

(***************************************************************************)
(* C17.  A write that renders the glyph of c with the cursor at (cx, cy)   *)
(* (the cursor the wrap and the clear left) calls the compositor with      *)
(* (cx + col, cy + row) and the intensity of (row, col) of the bitmap, and *)
(* with nothing else.  When the whole glyph is blitted every pixel of the  *)
(* cell holds the colour of its intensity, every other pixel is as it was  *)
(* (zero after a clear), cursor_x is cx + glyph width and cursor_y is cy;  *)
(* until then the cursor is not advanced.  No step changes the layout      *)
(* descriptor of the console.                                              *)
(***************************************************************************)
C17_RenderLaw ==
  [][/\ WRITER = "Init" => info' = info
     /\ \A p \in Procs :
          (Wrote(p) /\ Visible(Head(req[p])) /\ get_bitmap(Head(req[p])).some
             /\ Count(events', "get_bitmap") = 1) =>
            LET g == get_bitmap(Head(req[p]))
                cleared == Count(events', "clear") > 0
                cx == IF cleared \/ x_pos >= width THEN 0 ELSE x_pos
                cy == IF cleared THEN 0 ELSE WrappedY
                cell == {<<cx + col, cy + row, g.bitmap[row][col]>> :
                           row \in 0..(BITMAP_HEIGHT - 1), col \in 0..(g.width - 1)}
            IN /\ pixels' \subseteq cell
               /\ y_pos' = cy
               /\ ~Completed(p) => x_pos' = cx
               /\ Completed(p) =>
                    /\ pixels' = cell
                    /\ x_pos' = cx + g.width
                    /\ \A q \in 0..((Len(framebuffer) \div info.bytes_per_pixel) - 1),
                          b \in 0..(info.bytes_per_pixel - 1) :
                         LET d == q - (cy * info.stride + cx)
                             row == d \div info.stride
                             col == d % info.stride
                         IN IF d >= 0 /\ row < BITMAP_HEIGHT /\ col < g.width
                            THEN ByteAt(framebuffer', q, b)
                                   = DocumentedColor(info.pixel_format,
                                                     g.bitmap[row][col])[b + 1]
                            ELSE ByteAt(framebuffer', q, b)
                                   = IF cleared THEN 0 ELSE ByteAt(framebuffer, q, b)]_vars

\* a glyph was rendered in the second cell of a line, next to the first
C17_Witness ==
  /\ last = "write_char"
  /\ events = <<"get_bitmap", "rendered">>
  /\ Cardinality(pixels) = BITMAP_HEIGHT * BITMAP_LETTER_WIDTH
  /\ x_pos = 2 * BITMAP_LETTER_WIDTH /\ y_pos = 0
  /\ width = 2 * BITMAP_LETTER_WIDTH

(***************************************************************************)
(* C18.  Writing a character the font has no glyph for halts the writer at *)
(* that character: the write makes no compositor call and renders nothing, *)
(* the character and those after it stay unwritten for ever, and the       *)
(* halted writer never gives the lock back: once it has halted the lock is *)
(* only freed by a force_unlock or by the return of another writer.        *)
(***************************************************************************)
C18_NoGlyphFatal ==
  [][\A p \in Procs :
       /\ (Wrote(p) /\ Visible(Head(req[p])) /\ ~get_bitmap(Head(req[p])).some) =>
            /\ pc'[p] = "halted" /\ halt'[p] = "no glyph"
            /\ req'[p] = req[p]
            /\ pixels' = {}
            /\ Count(events', "rendered") = 0
            /\ locked' = locked
       /\ halt[p] = "no glyph" =>
            /\ pc'[p] = "halted" /\ halt'[p] = "no glyph"
            /\ req'[p] = req[p]
            /\ (locked /\ ~locked') =>
                 \/ last' = "force_unlock"
                 \/ \E q \in Procs \ {p} : pc[q] = "write" /\ pc'[q] = "idle"]_vars

\* a writer has just halted at the character without a glyph, the second of
\* its request, and holds the lock
C18_Witness ==
  /\ last = "write_char"
  /\ locked /\ ~misused
  /\ pixels = {}
  /\ \E p \in Procs :
       /\ pc[p] = "halted" /\ halt[p] = "no glyph"
       /\ req[p] = <<NoGlyphChar>>

(***************************************************************************)
(* C19 as the claim states it: every compositor call has x below the       *)
(* horizontal resolution, so that no glyph pixel is stored in the padding  *)
(* of a row or in the row below.                                           *)
(***************************************************************************)
C19_NoSpill ==
  WRITER = "Init" => \A t \in pixels : t[1] < width

(***************************************************************************)
(* SpecBoot: kernel_main.  The boot information holds a frame buffer of    *)
(* one of the layouts, or none; the kernel fills the buffer and fills the  *)
(* cell if there is one, prints "Test\n", and then prints the seconds      *)
(* since the start whenever its clock says a second has passed.  The       *)
(* clock readings are inputs: MaxSecs bounds the seconds printed.          *)
(***************************************************************************)
MaxSecs == 2

\* boot_info.framebuffer: Some frame buffer with its FrameBufferInfo, or None
FrameBuffers ==
  {[some |-> TRUE, info |-> layout] : layout \in Layouts}
    \cup {[some |-> FALSE, info |-> NoInfo]}

\* format_args!("{}", n) for a u64
RECURSIVE Decimal(_)
Decimal(n) ==
  IF n < 10 THEN <<Digits[n + 1]>>
  ELSE Decimal(n \div 10) \o <<Digits[(n % 10) + 1]>>

\* "Test\n"
TestText == <<"T", "e", "s", "t", LF>>

\* "Time: {}s\n"
TimeText(n) == <<"T", "i", "m", "e", ":", " ">> \o Decimal(n) \o <<"s", LF>>

\* main.rs:25-32: the if let on the frame buffer of the boot information
KernelEntry(fb) ==
  /\ last = "boot"
  /\ IF fb.some
     THEN GetOrInit(1, fb.info)
     ELSE /\ last' = "kernel_main"
          /\ UNCHANGED <<WRITER, info, framebuffer, x_pos, y_pos, locked, pc, req,
                         halt, overflow_checks, events, pixels, misused>>

\* main.rs:34
KernelTest ==
  /\ last \in {"get_or_init", "kernel_main"}
  /\ Printf(1, TestText)

\* main.rs:36-42: one turn of the loop in which a second has passed
KernelTime(n) ==
  /\ last = "unlock"
  /\ Printf(1, TimeText(n))

NextBoot ==
  \/ \E fb \in FrameBuffers : KernelEntry(fb)
  \/ KernelTest
  \/ \E n \in 1..MaxSecs : KernelTime(n)
  \/ Lock(1)
  \/ WriteChar(1)
  \/ Unlock(1)

SpecBoot == Init /\ [][NextBoot]_vars

(***************************************************************************)
(* C20 as the claim states it: on every path through kernel_main the cell  *)
(* is filled when printf! is called, and the kernel never halts on the     *)
(* empty cell.                                                             *)
(***************************************************************************)
C20_InitBeforePrintf ==
  /\ last = "printf" => WRITER = "Init"
  /\ \A p \in Procs : halt[p] # "uninit"

====
